---- MODULE Spec2Model ----
(***************************************************************************)
(* Model of src/cli/codex/scripts/codex.py: the wrapper that routes a task *)
(* to the codex child process (inline argument or stdin stream), drains    *)
(* the child's JSON-lines output into (last_agent_message, thread_id),     *)
(* waits for the child with a timeout and maps the outcome to an exit code. *)
(* The child is a separate process behind two bounded pipes: it reads its   *)
(* stdin and prints its lines at its own pace.                              *)
(***************************************************************************)
EXTENDS Integers, Sequences, FiniteSets, TLC

\* ------------------------------------------------------------------ bounds

\* Longest output (in lines) a child of the reducer specification prints.
MaxLines == 3

\* CODEX_TIMEOUT takes every integer within this distance of 0, of the
\* milliseconds threshold and of the next multiples of 1000 above it.
TimeoutSpread == 3

\* Characters a pipe to the child's stdin holds before a write blocks
\* (65536 bytes on Linux, scaled down with the task texts).
PipeChars == 1000

\* Output lines the child's stdout pipe holds before the child's write
\* blocks.
PipeLines == 1

\* ------------------------------------------------------- program constants

DEFAULT_TIMEOUT == 7200
FORCE_KILL_DELAY == 5
MS_THRESHOLD == 10000
MS_PER_SECOND == 1000
STDIN_LENGTH_LIMIT == 800
EXIT_FAILURE == 1
EXIT_TIMEOUT == 124
EXIT_NOT_FOUND == 127
EXIT_INTERRUPTED == 130

\* ------------------------------------------------------------------- texts

\* A text (task argument, stdin data) is the characters of `body` followed
\* by `pad` copies of the filler character: a run-length form that keeps
\* texts of 800 characters small.  Texts are kept canonical (a body never
\* ends in the filler while pad > 0), so equality of texts is equality of
\* records.
PadChar == "x"

Str(body) == [body |-> body, pad |-> 0]

Padded(body, n) == [body |-> body, pad |-> n]

TextLen(t) == Len(t.body) + t.pad

HasChar(t, c) == (\E i \in 1..Len(t.body) : t.body[i] = c) \/ (c = PadChar /\ t.pad > 0)

EmptyText == Str(<<>>)

DASH == Str(<<"-">>)

RESUME == Str(<<"r", "e", "s", "u", "m", "e">>)

\* A fixed literal of the invocation vector.
Lit(s) == [lit |-> s]

\* Optional values: <<>> is Python's None, <<v>> is the value v.
NoValue == <<>>

Some(v) == <<v>>

\* --------------------------------------------------------------- JSON data

\* Decoded JSON values, tagged by type.  JNull is also Python's None.
JNull == [t |-> "null"]

JStr(s) == [t |-> "str", s |-> s]

JNum(n) == [t |-> "num", n |-> n]

JList(items) == [t |-> "list", items |-> items]

JObj(f) == [t |-> "obj", f |-> f]

\* dict.get(key, default)
Get(obj, key, default) == IF key \in DOMAIN obj.f THEN obj.f[key] ELSE default

\* Python truthiness of a decoded value.
Truthy(v) ==
    CASE v.t = "null" -> FALSE
      [] v.t = "str" -> v.s # ""
      [] v.t = "num" -> v.n # 0
      [] v.t = "list" -> v.items # <<>>
      [] OTHER -> TRUE

RECURSIVE Join(_)
\* ''.join(items) for a sequence of JStr values.
Join(items) == IF items = <<>> THEN "" ELSE Head(items).s \o Join(Tail(items))

\* normalize_text: [exc, val]; ''.join raises TypeError on a non-str item.
normalize_text(text) ==
    CASE text.t = "str" -> [exc |-> "none", val |-> text]
      [] text.t = "list" ->
            IF \A i \in 1..Len(text.items) : text.items[i].t = "str"
            THEN [exc |-> "none", val |-> JStr(Join(text.items))]
            ELSE [exc |-> "TypeError", val |-> JNull]
      [] OTHER -> [exc |-> "none", val |-> JNull]

\* ------------------------------------------------------------ event reducer

\* One raw output line of the child: whitespace only, text json.loads
\* rejects, text that decodes to the JSON value v, or bytes that are not
\* text in the locale's encoding.
BlankLine == [k |-> "blank"]

UndecodableLine == [k |-> "undecodable"]

GarbageLine == [k |-> "garbage"]

JsonLine(v) == [k |-> "json", v |-> v]

\* The {} default of event.get('item', {}).
EmptyDict == JObj([key \in {} |-> JNull])

\* thread_id after the 'thread.started' test of one decoded object.
capture_thread_id(event, thread_id) ==
    IF Get(event, "type", JNull) = JStr("thread.started")
    THEN Get(event, "thread_id", JNull)
    ELSE thread_id

\* capture_agent_message without the `if text:` guard on empty strings.
capture_any_string(text, last_agent_message) ==
    IF text.t = "str" THEN text ELSE last_agent_message

\* capture_agent_message without the `if text:` guard at all: whatever
\* normalize_text returned is stored.
capture_normalized_text(text, last_agent_message) == text

\* last_agent_message after a normalized agent_message text.
capture_agent_message(text, last_agent_message) ==
    IF Truthy(text) THEN text ELSE last_agent_message

\* The body of the try block for one decoded event.  Attribute access on a
\* value that is not a dict raises AttributeError, ''.join on a list with a
\* non-str item raises TypeError; neither is caught inside the loop.
reduce_event(event, thread_id, last_agent_message) ==
    IF event.t # "obj"
    THEN [exc |-> "AttributeError", thread_id |-> thread_id, last_agent_message |-> last_agent_message]
    ELSE LET tid == capture_thread_id(event, thread_id)
             item == Get(event, "item", EmptyDict)
             same == [exc |-> "none", thread_id |-> tid, last_agent_message |-> last_agent_message]
         IN  IF Get(event, "type", JNull) # JStr("item.completed") THEN same
             ELSE IF item.t # "obj"
                  THEN [same EXCEPT !.exc = "AttributeError"]
             ELSE IF Get(item, "type", JNull) # JStr("agent_message") THEN same
             ELSE LET n == normalize_text(Get(item, "text", JNull))
                  IN  IF n.exc # "none"
                      THEN [same EXCEPT !.exc = n.exc]
                      ELSE [same EXCEPT !.last_agent_message =
                                capture_agent_message(n.val, last_agent_message)]

\* handle_line without the except clause: a line that does not decode
\* raises out of the loop.
handle_line_uncaught(line, thread_id, last_agent_message) ==
    CASE line.k = "blank" ->
            [exc |-> "none", thread_id |-> thread_id, last_agent_message |-> last_agent_message]
      [] line.k = "garbage" ->
            [exc |-> "JSONDecodeError", thread_id |-> thread_id,
             last_agent_message |-> last_agent_message]
      [] line.k = "undecodable" ->
            [exc |-> "UnicodeDecodeError", thread_id |-> thread_id,
             last_agent_message |-> last_agent_message]
      [] OTHER -> reduce_event(line.v, thread_id, last_agent_message)

\* One iteration of `for line in process.stdout`: blank lines are skipped,
\* json.JSONDecodeError is caught and logged, anything else propagates,
\* the UnicodeDecodeError of the text-mode read included.
handle_line(line, thread_id, last_agent_message) ==
    CASE line.k = "blank" ->
            [exc |-> "none", thread_id |-> thread_id, last_agent_message |-> last_agent_message]
      [] line.k = "garbage" ->
            [exc |-> "none", thread_id |-> thread_id, last_agent_message |-> last_agent_message]
      [] line.k = "undecodable" ->
            [exc |-> "UnicodeDecodeError", thread_id |-> thread_id,
             last_agent_message |-> last_agent_message]
      [] OTHER -> reduce_event(line.v, thread_id, last_agent_message)

\* ---------------------------------------------------------- resolve_timeout

Digits == {"0", "1", "2", "3", "4", "5", "6", "7", "8", "9"}

DigitValue(c) ==
    CASE c = "0" -> 0 [] c = "1" -> 1 [] c = "2" -> 2 [] c = "3" -> 3 [] c = "4" -> 4
      [] c = "5" -> 5 [] c = "6" -> 6 [] c = "7" -> 7 [] c = "8" -> 8 [] OTHER -> 9

RECURSIVE StripLeft(_)
StripLeft(s) == IF s # <<>> /\ Head(s) = " " THEN StripLeft(Tail(s)) ELSE s

RECURSIVE StripRight(_)
StripRight(s) ==
    IF s # <<>> /\ s[Len(s)] = " " THEN StripRight(SubSeq(s, 1, Len(s) - 1)) ELSE s

RECURSIVE DigitsValue(_, _)
DigitsValue(s, acc) ==
    IF s = <<>> THEN acc ELSE DigitsValue(Tail(s), acc * 10 + DigitValue(Head(s)))

\* int(raw) on a sequence of characters: surrounding whitespace is dropped,
\* one optional sign, then at least one digit and only digits; anything
\* else is a ValueError.  Python integers do not overflow.
ParseInt(raw) ==
    LET s == StripRight(StripLeft(raw))
        signed == s # <<>> /\ Head(s) \in {"-", "+"}
        ds == IF signed THEN Tail(s) ELSE s
    IN  IF ds # <<>> /\ \A i \in 1..Len(ds) : ds[i] \in Digits
        THEN [ok |-> TRUE,
              val |-> IF signed /\ Head(s) = "-" THEN 0 - DigitsValue(ds, 0) ELSE DigitsValue(ds, 0)]
        ELSE [ok |-> FALSE, val |-> 0]

\* convert_timeout with the threshold test off by one (>= 10000).
convert_timeout_at_threshold(parsed) ==
    IF parsed >= MS_THRESHOLD THEN parsed \div MS_PER_SECOND ELSE parsed

\* The conversion of a valid positive value: above 10000 it is taken as
\* milliseconds.
convert_timeout(parsed) ==
    IF parsed > MS_THRESHOLD THEN parsed \div MS_PER_SECOND ELSE parsed

\* resolve_timeout() for CODEX_TIMEOUT = env (NoValue when unset).
resolve_timeout(env) ==
    LET raw == IF env = NoValue THEN <<>> ELSE env[1]
        p == ParseInt(raw)
    IN  IF raw = <<>> THEN DEFAULT_TIMEOUT
        ELSE IF ~p.ok THEN DEFAULT_TIMEOUT
        ELSE IF p.val <= 0 THEN DEFAULT_TIMEOUT
        ELSE convert_timeout(p.val)

\* ------------------------------------------------------- command line, stdin

DEFAULT_WORKDIR == Str(<<".">>)

DEFAULT_MODEL == Lit("gpt-5.1")

\* sys.argv[i] (argv is 1-based here, sys.argv 0-based).
Arg(argv, i) == argv[i + 1]

\* parse_args without the length check of resume mode: a short resume
\* command line is read as a new task.
parse_args_unchecked_resume(argv) ==
    IF Len(argv) < 2 THEN [exit |-> TRUE, error |-> "Task required"]
    ELSE IF Arg(argv, 1) = RESUME /\ Len(argv) >= 4
    THEN [exit |-> FALSE,
          mode |-> "resume",
          session_id |-> Arg(argv, 2),
          task |-> Arg(argv, 3),
          explicit_stdin |-> (Arg(argv, 3) = DASH),
          workdir |-> IF Len(argv) > 4 THEN Arg(argv, 4) ELSE DEFAULT_WORKDIR]
    ELSE [exit |-> FALSE,
          mode |-> "new",
          task |-> Arg(argv, 1),
          explicit_stdin |-> (Arg(argv, 1) = DASH),
          workdir |-> IF Len(argv) > 2 THEN Arg(argv, 2) ELSE DEFAULT_WORKDIR]

\* parse_args(): [exit |-> TRUE] on a usage error, else the params dict.
parse_args(argv) ==
    IF Len(argv) < 2 THEN [exit |-> TRUE, error |-> "Task required"]
    ELSE IF Arg(argv, 1) = RESUME
    THEN IF Len(argv) < 4
         THEN [exit |-> TRUE, error |-> "Resume mode requires: resume <session_id> <task>"]
         ELSE [exit |-> FALSE,
               mode |-> "resume",
               session_id |-> Arg(argv, 2),
               task |-> Arg(argv, 3),
               explicit_stdin |-> (Arg(argv, 3) = DASH),
               workdir |-> IF Len(argv) > 4 THEN Arg(argv, 4) ELSE DEFAULT_WORKDIR]
    ELSE [exit |-> FALSE,
          mode |-> "new",
          task |-> Arg(argv, 1),
          explicit_stdin |-> (Arg(argv, 1) = DASH),
          workdir |-> IF Len(argv) > 2 THEN Arg(argv, 2) ELSE DEFAULT_WORKDIR]

\* read_piped_task that never reads stdin.
read_piped_task_never(stdin) == NoValue

\* sys.stdin is [kind, data]: kind "none" (sys.stdin is None), "tty" or
\* "pipe"; data is what read() returns.
\* read_piped_task(): NoValue or the data read.
read_piped_task(stdin) ==
    IF stdin.kind = "none" \/ stdin.kind = "tty" THEN NoValue
    ELSE IF stdin.data = EmptyText THEN NoValue
    ELSE Some(stdin.data)

\* should_stream_via_stdin with the length test off by one (>= 800).
should_stream_at_limit(task_text, piped) ==
    IF piped THEN TRUE
    ELSE IF HasChar(task_text, "\n") THEN TRUE
    ELSE IF HasChar(task_text, "\\") THEN TRUE
    ELSE IF TextLen(task_text) >= STDIN_LENGTH_LIMIT THEN TRUE
    ELSE FALSE

should_stream_via_stdin(task_text, piped) ==
    IF piped THEN TRUE
    ELSE IF HasChar(task_text, "\n") THEN TRUE
    ELSE IF HasChar(task_text, "\\") THEN TRUE
    ELSE IF TextLen(task_text) > STDIN_LENGTH_LIMIT THEN TRUE
    ELSE FALSE

\* use_stdin of main().
route_use_stdin(explicit_stdin, task_text, piped) ==
    explicit_stdin \/ should_stream_via_stdin(task_text, piped)

\* route_target_arg that always passes the task argument.
route_target_arg_always_task(use_stdin, task) == task

\* target_arg of main().
route_target_arg(use_stdin, task) == IF use_stdin THEN DASH ELSE task

build_codex_args(params, target_arg) ==
    IF params.mode = "resume"
    THEN <<Lit("codex"), Lit("e"), Lit("-m"), DEFAULT_MODEL, Lit("--skip-git-repo-check"),
           Lit("--json"), Lit("resume"), params.session_id, target_arg>>
    ELSE <<Lit("codex"), Lit("e"), Lit("-m"), DEFAULT_MODEL, Lit("-a never"),
           Lit("--sandbox workspace-write"), Lit("--skip-git-repo-check"),
           Lit("-C"), params.workdir, Lit("--json"), target_arg>>

\* ------------------------------------------------------------------- state

VARIABLES
    argv,               \* sys.argv
    stdin,              \* sys.stdin: [kind, data]
    env,                \* CODEX_TIMEOUT: NoValue or Some(characters)
    codex_in_path,      \* whether the codex binary resolves
    script,             \* what the child does: [lines, rc, ending, input]
    pc,                 \* position of the wrapper
    params,             \* parse_args() result
    timeout_sec,
    task_text,
    piped,
    use_stdin,
    codex_args,
    process,            \* process is not None
    stdin_pipe,         \* child spawned with stdin=PIPE
    written,            \* texts written to the child's stdin, then closed
    child,              \* "none", "running", "termed", "dying", "exited", "reaped"
    child_rc,           \* the child's exit status once it has exited
    stdout_open,        \* the child still holds its stdout open
    signals,            \* signals sent to the child, in order
    sent,               \* characters of task_text written into the stdin pipe
    taken,              \* characters the child has read from its stdin
    emitted,            \* lines of script.lines the child has written to its stdout
    interrupts,         \* where each KeyboardInterrupt was raised, in order
    pos,                \* lines of script.lines read so far
    thread_id,
    last_agent_message,
    returncode,         \* result of process.wait(timeout=timeout_sec)
    elapsed,            \* timeout_sec has passed since the spawn
    overran,            \* the child was running when it had
    outcome,            \* the exit path taken
    exit_code,          \* exit status of the wrapper
    stdout,             \* what the wrapper wrote to its stdout
    diag                \* the log_error line (or traceback) on stderr

inputVars == <<argv, stdin, env, codex_in_path, script>>

mainVars == <<params, timeout_sec, task_text, piped, use_stdin, codex_args>>

childVars == <<process, stdin_pipe, written, child, child_rc, stdout_open, signals>>

pipeVars == <<sent, taken, emitted>>

reduceVars == <<pos, thread_id, last_agent_message>>

timeVars == <<elapsed, overran>>

exitVars == <<outcome, exit_code, stdout, diag>>

vars ==
    <<inputVars, pc, mainVars, childVars, pipeVars, interrupts, reduceVars, returncode,
      timeVars, exitVars>>

\* sys.exit(code) after log_error(message); or the interpreter's exit after
\* an uncaught exception (traceback, status 1).
Exit(code, how, message) ==
    /\ pc' = "done"
    /\ exit_code' = Some(code % 256)
    /\ outcome' = how
    /\ diag' = message
    /\ stdout' = stdout

Unhandled(exception) == Exit(EXIT_FAILURE, "Unhandled", "Traceback: " \o exception)

\* -------------------------------------------------------------- main()

\* main() line 273: params = parse_args()
ParseArgs ==
    /\ pc = "start"
    /\ LET r == parse_args(argv)
       IN  IF r.exit
           THEN Exit(EXIT_FAILURE, "UsageError", r.error) /\ UNCHANGED params
           ELSE /\ params' = r
                /\ pc' = "resolve"
                /\ UNCHANGED exitVars
    /\ UNCHANGED <<inputVars, timeout_sec, task_text, piped, use_stdin, codex_args,
                   childVars, pipeVars, interrupts, reduceVars, returncode, timeVars>>

\* main() line 275: timeout_sec = resolve_timeout()
ResolveTimeout ==
    /\ pc = "resolve"
    /\ timeout_sec' = Some(resolve_timeout(env))
    /\ pc' = "read"
    /\ UNCHANGED <<inputVars, params, task_text, piped, use_stdin, codex_args,
                   childVars, pipeVars, interrupts, reduceVars, returncode, timeVars, exitVars>>

\* main() lines 278-290: the task text and whether it was piped.
ReadTask ==
    /\ pc = "read"
    /\ IF params.explicit_stdin
       THEN IF stdin.kind = "none"
            THEN Unhandled("AttributeError") /\ UNCHANGED <<task_text, piped>>
            ELSE IF stdin.data = EmptyText
            THEN /\ Exit(EXIT_FAILURE, "UsageError",
                         "Explicit stdin mode requires task input from stdin")
                 /\ UNCHANGED <<task_text, piped>>
            ELSE /\ task_text' = Some(stdin.data)
                 /\ piped' = (stdin.kind # "tty")
                 /\ pc' = "route"
                 /\ UNCHANGED exitVars
       ELSE LET piped_task == read_piped_task(stdin)
            IN  /\ piped' = (piped_task # NoValue)
                /\ task_text' = IF piped_task # NoValue THEN piped_task ELSE Some(params.task)
                /\ pc' = "route"
                /\ UNCHANGED exitVars
    /\ UNCHANGED <<inputVars, params, timeout_sec, use_stdin, codex_args,
                   childVars, pipeVars, interrupts, reduceVars, returncode, timeVars>>

\* main() lines 292-311: delivery mode and the invocation vector.
Route ==
    /\ pc = "route"
    /\ use_stdin' = route_use_stdin(params.explicit_stdin, task_text[1], piped)
    /\ codex_args' = build_codex_args(params, route_target_arg(use_stdin', params.task))
    /\ pc' = "spawn"
    /\ UNCHANGED <<inputVars, params, timeout_sec, task_text, piped,
                   childVars, pipeVars, interrupts, reduceVars, returncode, timeVars, exitVars>>

\* ------------------------------------------------------ run_codex_process()

\* Lines 187-195: subprocess.Popen; FileNotFoundError is handled at 256-258.
Spawn ==
    /\ pc = "spawn"
    /\ IF ~codex_in_path
       THEN /\ Exit(EXIT_NOT_FOUND, "ChildNotFound", "codex command not found in PATH")
            /\ UNCHANGED <<process, stdin_pipe, child, stdout_open>>
       ELSE /\ process' = TRUE
            /\ stdin_pipe' = use_stdin
            /\ child' = "running"
            /\ stdout_open' = TRUE
            /\ pc' = IF use_stdin THEN "write" ELSE "drain"
            /\ UNCHANGED exitVars
    /\ UNCHANGED <<inputVars, mainVars, written, child_rc, signals,
                   pipeVars, interrupts, reduceVars, returncode, timeVars>>

\* Lines 198-203: write, flush, close.  The write blocks while the pipe is
\* full and goes on as the child reads; each step puts what fits into the
\* pipe, and the step that puts the last character also flushes and closes.
\* Writing to a child that is gone raises BrokenPipeError, which no except
\* clause handles.
WriteStdin ==
    /\ pc = "write"
    /\ IF child = "exited"
       THEN Unhandled("BrokenPipeError") /\ UNCHANGED <<written, sent>>
       ELSE /\ sent - taken < PipeChars
            /\ sent' = IF TextLen(task_text[1]) <= taken + PipeChars
                       THEN TextLen(task_text[1])
                       ELSE taken + PipeChars
            /\ IF sent' = TextLen(task_text[1])
               THEN written' = Some(task_text[1]) /\ pc' = "drain"
               ELSE UNCHANGED <<written, pc>>
            /\ UNCHANGED exitVars
    /\ UNCHANGED <<inputVars, mainVars, process, stdin_pipe, child, child_rc, stdout_open,
                   signals, taken, emitted, interrupts, reduceVars, returncode, timeVars>>

\* Lines 212-232: one line of the child's stdout is read and reduced.
DrainLine ==
    /\ pc = "drain"
    /\ pos < emitted
    /\ LET r == handle_line(script.lines[pos + 1], thread_id, last_agent_message)
       IN  /\ pos' = pos + 1
           /\ IF r.exc # "none"
              THEN Unhandled(r.exc) /\ UNCHANGED <<thread_id, last_agent_message>>
              ELSE /\ thread_id' = r.thread_id
                   /\ last_agent_message' = r.last_agent_message
                   /\ UNCHANGED <<pc, exitVars>>
    /\ UNCHANGED <<inputVars, mainVars, childVars, pipeVars, interrupts, returncode, timeVars>>

\* Line 212: the loop ends when the pipe is empty and the child's stdout
\* has reached end of file.
DrainEOF ==
    /\ pc = "drain"
    /\ pos = emitted
    /\ ~stdout_open
    /\ pc' = "wait"
    /\ UNCHANGED <<inputVars, mainVars, childVars, pipeVars, interrupts, reduceVars,
                   returncode, timeVars, exitVars>>

\* wait_verdict without the test for a missing agent message.
wait_verdict_no_output_check(code, message) ==
    IF code # 0 THEN "nonzero" ELSE "return"

\* wait_verdict with the two tests in the other order.
wait_verdict_output_first(code, message) ==
    IF ~Truthy(message) THEN "no_output"
    ELSE IF code # 0 THEN "nonzero"
    ELSE "return"

\* The decision of lines 236-244 on the code process.wait returned:
\* "nonzero", "no_output" or "return".
wait_verdict(code, message) ==
    IF code # 0 THEN "nonzero"
    ELSE IF ~Truthy(message) THEN "no_output"
    ELSE "return"

\* Lines 235-244: process.wait returns the exit status of the child.
WaitReturn ==
    /\ pc = "wait"
    /\ child = "exited"
    /\ child' = "reaped"
    /\ returncode' = child_rc
    /\ LET v == wait_verdict(child_rc[1], last_agent_message)
       IN  CASE v = "nonzero" ->
                  Exit(child_rc[1], "NonZeroExit", "Codex exited with status")
             [] v = "no_output" ->
                  Exit(EXIT_FAILURE, "NoOutput", "Codex completed without agent_message output")
             [] OTHER -> pc' = "emit" /\ UNCHANGED exitVars
    /\ UNCHANGED <<inputVars, mainVars, process, stdin_pipe, written, child_rc, stdout_open,
                   signals, pipeVars, interrupts, reduceVars, timeVars>>

\* The text of a value inside an f-string.
Format(v) == IF v.t = "str" THEN v.s ELSE "<repr>"

\* emit_output that writes the trailer whether or not a session id is held.
emit_output_always_trailer(message, tid) ==
    <<Format(message) \o "\n", "\n---\nSESSION_ID: " \o Format(tid) \o "\n">>

\* main() lines 322-327: what is written to stdout on success.
emit_output(message, tid) ==
    <<Format(message) \o "\n">>
    \o (IF Truthy(tid) THEN <<"\n---\nSESSION_ID: " \o Format(tid) \o "\n">> ELSE <<>>)

\* main() lines 322-329.
Emit ==
    /\ pc = "emit"
    /\ stdout' = emit_output(last_agent_message, thread_id)
    /\ pc' = "done"
    /\ exit_code' = Some(0)
    /\ outcome' = "Success"
    /\ UNCHANGED <<inputVars, mainVars, childVars, pipeVars, interrupts, reduceVars,
                   returncode, timeVars, diag>>

\* Lines 235, 246-249: the wait outlasts timeout_sec; the handler logs and
\* calls process.kill().
WaitTimeout ==
    /\ pc = "wait"
    /\ child = "running"
    /\ elapsed
    /\ signals' = Append(signals, "KILL")
    /\ child' = "dying"
    /\ pc' = "timeout_grace"
    /\ diag' = "Codex execution timeout"
    /\ UNCHANGED <<inputVars, mainVars, process, stdin_pipe, written, child_rc, stdout_open,
                   pipeVars, interrupts, reduceVars, returncode, timeVars, outcome,
                   exit_code, stdout>>

\* Lines 250-254: process.wait(timeout=FORCE_KILL_DELAY) reaps the child.
TimeoutGraceReaped ==
    /\ pc = "timeout_grace"
    /\ child = "exited"
    /\ child' = "reaped"
    /\ Exit(EXIT_TIMEOUT, "Timeout", diag)
    /\ UNCHANGED <<inputVars, mainVars, process, stdin_pipe, written, child_rc, stdout_open,
                   signals, pipeVars, interrupts, reduceVars, returncode, timeVars>>

\* Lines 252-254: the grace wait raises TimeoutExpired, which is passed over.
TimeoutGraceExpired ==
    /\ pc = "timeout_grace"
    /\ child = "dying"
    /\ Exit(EXIT_TIMEOUT, "Timeout", diag)
    /\ UNCHANGED <<inputVars, mainVars, childVars, pipeVars, interrupts, reduceVars,
                   returncode, timeVars>>

\* Interrupt with process.kill() in the place of process.terminate().
InterruptKillsFirst ==
    /\ pc \in {"spawn", "write", "drain", "wait"}
    /\ interrupts' = Append(interrupts, pc)
    /\ IF ~process
       THEN /\ Exit(EXIT_INTERRUPTED, "Interrupted", "Codex interrupted by user")
            /\ UNCHANGED <<signals, child>>
       ELSE /\ pc' = "int_grace"
            /\ diag' = "Codex interrupted by user"
            /\ signals' = IF child = "running" THEN Append(signals, "KILL") ELSE signals
            /\ child' = IF child = "running" THEN "termed" ELSE child
            /\ UNCHANGED <<outcome, exit_code, stdout>>
    /\ UNCHANGED <<inputVars, mainVars, process, stdin_pipe, written, child_rc, stdout_open,
                   pipeVars, reduceVars, returncode, timeVars>>

\* Lines 260-263: KeyboardInterrupt inside the try block; the handler logs
\* and, when a process exists, calls process.terminate(), which signals
\* nothing when the child has already exited.
Interrupt ==
    /\ pc \in {"spawn", "write", "drain", "wait"}
    /\ interrupts' = Append(interrupts, pc)
    /\ IF ~process
       THEN /\ Exit(EXIT_INTERRUPTED, "Interrupted", "Codex interrupted by user")
            /\ UNCHANGED <<signals, child>>
       ELSE /\ pc' = "int_grace"
            /\ diag' = "Codex interrupted by user"
            /\ signals' = IF child = "running" THEN Append(signals, "TERM") ELSE signals
            /\ child' = IF child = "running" THEN "termed" ELSE child
            /\ UNCHANGED <<outcome, exit_code, stdout>>
    /\ UNCHANGED <<inputVars, mainVars, process, stdin_pipe, written, child_rc, stdout_open,
                   pipeVars, reduceVars, returncode, timeVars>>

\* KeyboardInterrupt raised inside an except clause (lines 247-253 or
\* 261-267): no clause of the same try statement handles it and it leaves
\* main() uncaught.  The interpreter prints the traceback and ends with
\* status 1 or, from Python 3.8 on, dies of SIGINT (status 128 + 2).
InterruptInHandler ==
    /\ pc \in {"timeout_grace", "int_grace"}
    /\ interrupts' = Append(interrupts, pc)
    /\ \E status \in {EXIT_FAILURE, 128 + 2} :
          Exit(status, "Unhandled", "Traceback: KeyboardInterrupt")
    /\ UNCHANGED <<inputVars, mainVars, childVars, pipeVars, reduceVars, returncode,
                   timeVars>>

\* Lines 264-268: the grace wait reaps the child.
InterruptGraceReaped ==
    /\ pc = "int_grace"
    /\ child = "exited"
    /\ child' = "reaped"
    /\ Exit(EXIT_INTERRUPTED, "Interrupted", diag)
    /\ UNCHANGED <<inputVars, mainVars, process, stdin_pipe, written, child_rc, stdout_open,
                   signals, pipeVars, interrupts, reduceVars, returncode, timeVars>>

\* Lines 266-268: the grace wait raises TimeoutExpired; process.kill().
InterruptGraceExpired ==
    /\ pc = "int_grace"
    /\ child = "termed"
    /\ signals' = Append(signals, "KILL")
    /\ child' = "dying"
    /\ Exit(EXIT_INTERRUPTED, "Interrupted", diag)
    /\ UNCHANGED <<inputVars, mainVars, process, stdin_pipe, written, child_rc, stdout_open,
                   pipeVars, interrupts, reduceVars, returncode, timeVars>>

\* ------------------------------------------------------- child and clock

\* The child has nothing more to read from its stdin: it never reads it,
\* it was given no pipe, or it has read everything up to end of file.
ChildInputDone ==
    \/ script.input = "never"
    \/ ~stdin_pipe
    \/ written # NoValue /\ taken = sent

\* The child reads what its stdin pipe holds: before printing anything
\* (input "first") or after printing everything (input "last").
ChildRead ==
    /\ pc # "done"
    /\ child = "running"
    /\ stdin_pipe
    /\ script.input # "never"
    /\ script.input = "last" => emitted = Len(script.lines)
    /\ taken < sent
    /\ taken' = sent
    /\ UNCHANGED <<inputVars, pc, mainVars, childVars, sent, emitted, interrupts,
                   reduceVars, returncode, timeVars, exitVars>>

\* The child writes its next line into its stdout pipe; the write blocks
\* while the pipe holds PipeLines unread lines.
ChildPrint ==
    /\ pc # "done"
    /\ child = "running"
    /\ script.input = "first" => ChildInputDone
    /\ emitted < Len(script.lines)
    /\ emitted - pos < PipeLines
    /\ emitted' = emitted + 1
    /\ UNCHANGED <<inputVars, pc, mainVars, childVars, sent, taken, interrupts,
                   reduceVars, returncode, timeVars, exitVars>>

\* The child exits by itself once it has printed its output and read its
\* input.
ChildExit ==
    /\ pc # "done"
    /\ child = "running"
    /\ script.ending = "exit"
    /\ emitted = Len(script.lines)
    /\ ChildInputDone
    /\ child' = "exited"
    /\ child_rc' = Some(script.rc)
    /\ stdout_open' = FALSE
    /\ UNCHANGED <<inputVars, pc, mainVars, process, stdin_pipe, written, signals,
                   pipeVars, interrupts, reduceVars, returncode, timeVars, exitVars>>

\* The child closes its stdout and keeps running.
ChildCloseStdout ==
    /\ pc # "done"
    /\ child = "running"
    /\ script.ending = "linger"
    /\ emitted = Len(script.lines)
    /\ ChildInputDone
    /\ stdout_open
    /\ stdout_open' = FALSE
    /\ UNCHANGED <<inputVars, pc, mainVars, process, stdin_pipe, written, child, child_rc,
                   signals, pipeVars, interrupts, reduceVars, returncode, timeVars, exitVars>>

\* A signalled child dies: status -15 after SIGTERM, -9 after SIGKILL.
ChildDies ==
    /\ pc # "done"
    /\ child \in {"termed", "dying"}
    /\ child' = "exited"
    /\ child_rc' = Some(IF child = "termed" THEN 0 - 15 ELSE 0 - 9)
    /\ stdout_open' = FALSE
    /\ UNCHANGED <<inputVars, pc, mainVars, process, stdin_pipe, written, signals,
                   pipeVars, interrupts, reduceVars, returncode, timeVars, exitVars>>

\* timeout_sec seconds have passed since the child was spawned.
BudgetElapses ==
    /\ pc \in {"write", "drain", "wait", "int_grace"}
    /\ ~elapsed
    /\ elapsed' = TRUE
    /\ overran' = (child = "running")
    /\ UNCHANGED <<inputVars, pc, mainVars, childVars, pipeVars, interrupts, reduceVars,
                   returncode, exitVars>>

Next ==
    \/ ParseArgs
    \/ ResolveTimeout
    \/ ReadTask
    \/ Route
    \/ Spawn
    \/ WriteStdin
    \/ DrainLine
    \/ DrainEOF
    \/ WaitReturn
    \/ Emit
    \/ WaitTimeout
    \/ TimeoutGraceReaped
    \/ TimeoutGraceExpired
    \/ Interrupt
    \/ InterruptInHandler
    \/ InterruptGraceReaped
    \/ InterruptGraceExpired
    \/ ChildRead
    \/ ChildPrint
    \/ ChildExit
    \/ ChildCloseStdout
    \/ ChildDies
    \/ BudgetElapses

\* ------------------------------------------------------------------ inputs

\* Task texts: short, exactly 800 and 801 characters, with a newline, with
\* a backslash, empty.
T_hi == Str(<<"h", "i">>)

T_800 == Padded(<<>>, 800)

T_801 == Padded(<<>>, 801)

T_nl == Str(<<"a", "\n", "b">>)

T_bs == Str(<<"a", "\\">>)

\* A text that does not fit into the child's stdin pipe.
T_big == Padded(<<>>, 2 * PipeChars + 500)

TaskArgs == {EmptyText, T_hi, T_800, T_801, T_nl, T_bs, DASH}

SCRIPT_NAME == Str(<<"c", "o", "d", "e", "x", ".", "p", "y">>)

SESSION == Str(<<"s", "1">>)

WORKDIR == Str(<<"/", "w">>)

ArgvAll ==
    {<<SCRIPT_NAME>>, <<SCRIPT_NAME, RESUME>>, <<SCRIPT_NAME, RESUME, SESSION>>,
     <<SCRIPT_NAME, T_hi, WORKDIR>>, <<SCRIPT_NAME, RESUME, SESSION, T_hi, WORKDIR>>}
    \cup {<<SCRIPT_NAME, t>> : t \in TaskArgs}
    \cup {<<SCRIPT_NAME, RESUME, SESSION, t>> : t \in TaskArgs}

ArgvFew == {<<SCRIPT_NAME>>, <<SCRIPT_NAME, T_hi>>, <<SCRIPT_NAME, DASH>>}

StdinAll ==
    {[kind |-> "none", data |-> EmptyText]}
    \cup [kind : {"tty"}, data : {EmptyText, T_hi}]
    \cup [kind : {"pipe"}, data : {EmptyText, T_hi, T_nl, T_big}]

StdinFew == {[kind |-> "tty", data |-> EmptyText], [kind |-> "pipe", data |-> T_hi]}

\* Decimal rendering of an integer, as a sequence of characters.
DigitChar(d) ==
    CASE d = 0 -> "0" [] d = 1 -> "1" [] d = 2 -> "2" [] d = 3 -> "3" [] d = 4 -> "4"
      [] d = 5 -> "5" [] d = 6 -> "6" [] d = 7 -> "7" [] d = 8 -> "8" [] OTHER -> "9"

RECURSIVE RenderNat(_)
RenderNat(n) ==
    IF n < 10 THEN <<DigitChar(n)>> ELSE Append(RenderNat(n \div 10), DigitChar(n % 10))

Render(n) == IF n < 0 THEN <<"-">> \o RenderNat(0 - n) ELSE RenderNat(n)

\* Integer values of CODEX_TIMEOUT.
TimeoutInts ==
    ((0 - TimeoutSpread)..TimeoutSpread)
    \cup {10000 + d : d \in (0 - TimeoutSpread)..TimeoutSpread}
    \cup {1000 * k + d : k \in 11..(11 + TimeoutSpread), d \in {0 - 1, 0, 1}}
    \cup {5000, 7200, 20000, 7200000}

\* Values int() rejects.
NonNumericRaws ==
    {<<"a", "b", "c">>, <<"1", ".", "5">>, <<"1", "2", "x">>, <<"-">>, <<"+">>, <<" ">>,
     <<"1", " ", "2">>, <<"-", "-", "1">>, <<"2", "h">>}

\* Integers written the other ways int() accepts: a plus sign, whitespace
\* around, leading zeros.
DressedInt(n) == {<<"+">> \o RenderNat(n), <<" ">> \o RenderNat(n) \o <<" ">>, <<"0">> \o RenderNat(n)}

EnvAll ==
    {NoValue, Some(<<>>)}
    \cup {Some(Render(n)) : n \in TimeoutInts}
    \cup {Some(r) : r \in NonNumericRaws}
    \cup {Some(r) : r \in DressedInt(30) \cup DressedInt(20000) \cup DressedInt(0)}

EnvFew == {NoValue, Some(Render(20000))}

\* Output lines of the child.
ThreadStarted(id) == JsonLine(JObj([type |-> JStr("thread.started"), thread_id |-> JStr(id)]))

ThreadStartedNoId == JsonLine(JObj([type |-> JStr("thread.started")]))

AgentMessage(text) ==
    JsonLine(JObj([type |-> JStr("item.completed"),
                   item |-> JObj([type |-> JStr("agent_message"), text |-> text])]))

TurnCompleted == JsonLine(JObj([type |-> JStr("turn.completed")]))

NoTypeLine == JsonLine(JObj([usage |-> JNum(1)]))

ItemMissing == JsonLine(JObj([type |-> JStr("item.completed")]))

ItemNull == JsonLine(JObj([type |-> JStr("item.completed"), item |-> JNull]))

ItemNotDict == JsonLine(JObj([type |-> JStr("item.completed"), item |-> JStr("agent_message")]))

ScalarLine == JsonLine(JNum(42))

\* The lines every output sequence of full length is built from.
CoreLines ==
    {BlankLine, GarbageLine, ScalarLine, TurnCompleted, ItemNull,
     ThreadStarted("A"), ThreadStarted("B"), ThreadStartedNoId,
     AgentMessage(JStr("final")), AgentMessage(JStr("")),
     AgentMessage(JList(<<JStr("dra"), JStr("ft")>>)),
     AgentMessage(JList(<<JStr("a"), JNum(1)>>))}

\* The rarer shapes, which appear in the shorter sequences.
Lines ==
    CoreLines
    \cup {NoTypeLine, ItemMissing, ItemNotDict, AgentMessage(JList(<<>>)), AgentMessage(JNum(7))}

RECURSIVE SeqsUpTo(_, _)
\* All sequences over S of length at most n.
SeqsUpTo(S, n) ==
    IF n = 0 THEN {<<>>}
    ELSE LET shorter == SeqsUpTo(S, n - 1)
         IN  shorter \cup {Append(q, x) : q \in shorter, x \in S}

\* A child: the lines it prints, then how it ends: it exits with rc
\* ("exit"), closes stdout and stays ("linger"), or keeps stdout open and
\* stays ("hang"); and when it reads its stdin: to end of file before it
\* prints ("first"), after it has printed ("last"), or not at all ("never").
Script(lines, rc, ending, input) ==
    [lines |-> lines, rc |-> rc, ending |-> ending, input |-> input]

ScriptsFew ==
    {Script(l, e[1], e[2], "never") :
        l \in {<<>>, <<ThreadStarted("A"), AgentMessage(JStr("final"))>>,
               <<AgentMessage(JStr("final"))>>, <<ThreadStarted(""), AgentMessage(JStr("final"))>>,
               <<ScalarLine>>, <<UndecodableLine>>},
        e \in {<<0, "exit">>, <<1, "exit">>, <<3, "exit">>, <<0, "linger">>, <<0, "hang">>}}
    \cup {Script(l, 0, "exit", i) :
            l \in {<<AgentMessage(JStr("final"))>>,
                   <<ThreadStarted("A"), TurnCompleted, BlankLine, AgentMessage(JStr("final"))>>},
            i \in {"first", "last"}}

ScriptsAll ==
    {Script(l, 0, "exit", "never") :
        l \in SeqsUpTo(CoreLines, MaxLines) \cup SeqsUpTo(Lines, MaxLines - 1)}

Runs(argvs, stdins, envs, scripts) ==
    [argv : argvs, stdin : stdins, env : envs, codex_in_path : BOOLEAN, script : scripts]

\* Runs that take every path of the program.
RunsBase == Runs(ArgvFew, StdinFew, EnvFew, ScriptsFew)

RunsMain == Runs(ArgvAll, StdinAll, EnvFew, ScriptsFew)

RunsReduce ==
    RunsBase
    \cup [argv : {<<SCRIPT_NAME, T_hi>>}, stdin : {[kind |-> "tty", data |-> EmptyText]},
          env : {NoValue}, codex_in_path : {TRUE}, script : ScriptsAll]

RunsTimeout ==
    RunsBase
    \cup [argv : {<<SCRIPT_NAME, T_hi>>}, stdin : {[kind |-> "tty", data |-> EmptyText]},
          env : EnvAll, codex_in_path : {TRUE},
          script : {Script(<<AgentMessage(JStr("final"))>>, 0, "exit", "never")}]

\* The state when the interpreter enters main(), for one run of `runs`.
InitOf(runs) ==
    /\ \E r \in runs :
         /\ argv = r.argv
         /\ stdin = r.stdin
         /\ env = r.env
         /\ codex_in_path = r.codex_in_path
         /\ script = r.script
    /\ pc = "start"
    /\ params = NoValue
    /\ timeout_sec = NoValue
    /\ task_text = NoValue
    /\ piped = FALSE
    /\ use_stdin = FALSE
    /\ codex_args = NoValue
    /\ process = FALSE
    /\ stdin_pipe = FALSE
    /\ written = NoValue
    /\ child = "none"
    /\ child_rc = NoValue
    /\ stdout_open = FALSE
    /\ signals = <<>>
    /\ sent = 0
    /\ taken = 0
    /\ emitted = 0
    /\ interrupts = <<>>
    /\ pos = 0
    /\ thread_id = JNull
    /\ last_agent_message = JNull
    /\ returncode = NoValue
    /\ elapsed = FALSE
    /\ overran = FALSE
    /\ outcome = "none"
    /\ exit_code = NoValue
    /\ stdout = <<>>
    /\ diag = "none"

Init == InitOf(RunsMain)

InitReduce == InitOf(RunsReduce)

InitTimeout == InitOf(RunsTimeout)

\* Every command line and stdin, a few children.
Spec == Init /\ [][Next]_vars

\* Every child output of at most MaxLines lines.
SpecReduce == InitReduce /\ [][Next]_vars

\* Every CODEX_TIMEOUT value.
SpecTimeout == InitTimeout /\ [][Next]_vars

\* -------------------------------------------------------------- properties

\* The task argument of the command line: sys.argv[3] after `resume`,
\* sys.argv[1] otherwise.
TaskArgument == IF argv[2] = RESUME THEN argv[4] ELSE argv[2]

\* Standard input is not a terminal and yielded data.
UpstreamPipe == stdin.kind = "pipe" /\ stdin.data # EmptyText

\* The wrapper has decided the delivery mode.
Routed == codex_args # NoValue

\* C1: once the delivery mode is decided, the task is streamed (use_stdin,
\* and the last argument handed to the child is '-') if and only if it came
\* through an upstream pipe, or the text holds a newline or a backslash or
\* more than 800 characters, or the task argument is the sentinel '-';
\* otherwise the last argument is the task text itself.
C1_InputRouting ==
    Routed =>
        LET text == task_text[1]
            streamed == \/ UpstreamPipe
                        \/ HasChar(text, "\n")
                        \/ HasChar(text, "\\")
                        \/ TextLen(text) > 800
                        \/ TaskArgument = DASH
        IN  /\ use_stdin <=> streamed
            /\ (codex_args[Len(codex_args)] = DASH) <=> streamed
            /\ ~streamed => codex_args[Len(codex_args)] = text

\* C1 witness: a text of exactly 800 plain characters, no pipe, goes inline.
C1_Witness ==
    /\ pc = "drain"
    /\ stdin.kind = "tty"
    /\ task_text = Some(T_800)
    /\ ~use_stdin
    /\ codex_args[Len(codex_args)] = T_800

\* The output lines read so far.
Consumed == SubSeq(script.lines, 1, pos)

\* The loop over the child's stdout ran to end of file.
Drained == pc \in {"wait", "emit", "timeout_grace"} \/ returncode # NoValue

\* A line that decodes to an object whose type is `name`.
IsRecord(line, name) ==
    /\ line.k = "json"
    /\ line.v.t = "obj"
    /\ "type" \in DOMAIN line.v.f
    /\ line.v.f.type = JStr(name)

\* A thread-started record.
IsThreadStarted(line) == IsRecord(line, "thread.started")

\* The thread id a thread-started record carries (JNull when it has none).
ThreadIdOf(line) == IF "thread_id" \in DOMAIN line.v.f THEN line.v.f.thread_id ELSE JNull

RECURSIVE ConcatFragments(_)
ConcatFragments(items) ==
    IF items = <<>> THEN "" ELSE Head(items).s \o ConcatFragments(Tail(items))

\* An item-completed record of type agent-message whose payload is a string
\* or a list of string fragments.
IsAgentMessage(line) ==
    /\ IsRecord(line, "item.completed")
    /\ "item" \in DOMAIN line.v.f
    /\ line.v.f.item.t = "obj"
    /\ "type" \in DOMAIN line.v.f.item.f
    /\ line.v.f.item.f.type = JStr("agent_message")
    /\ "text" \in DOMAIN line.v.f.item.f
    /\ LET payload == line.v.f.item.f.text
       IN  \/ payload.t = "str"
           \/ /\ payload.t = "list"
              /\ \A i \in 1..Len(payload.items) : payload.items[i].t = "str"

\* The normalized text of an agent-message record.
AgentTextOf(line) ==
    LET payload == line.v.f.item.f.text
    IN  IF payload.t = "str" THEN payload.s ELSE ConcatFragments(payload.items)

\* Positions in `lines` of the records that satisfy Is.
ThreadStartedAt(lines) == {i \in 1..Len(lines) : IsThreadStarted(lines[i])}

AgentMessagesAt(lines) == {i \in 1..Len(lines) : IsAgentMessage(lines[i])}

NonEmptyAgentMessagesAt(lines) ==
    {i \in AgentMessagesAt(lines) : AgentTextOf(lines[i]) # ""}

Max(S) == CHOOSE x \in S : \A y \in S : y <= x

Min(S) == CHOOSE x \in S : \A y \in S : x <= y

\* C2: after draining, the session id is the thread id of the first
\* thread-started record of the output (stated for outputs whose first
\* thread-started record carries an id); later thread-started records do
\* not change it.
C2_FirstThreadStartedWins ==
    (Drained /\ ThreadStartedAt(Consumed) # {}) =>
        LET first == Consumed[Min(ThreadStartedAt(Consumed))]
        IN  ThreadIdOf(first) # JNull => thread_id = ThreadIdOf(first)

\* C3 as stated: after draining, the last agent message is the normalized
\* text of the last agent-message record of the output, every such record
\* overwriting the value left by earlier ones (stated for outputs that hold
\* an agent-message record with a non-empty text).
C3_LastAgentMessageWins ==
    (Drained /\ NonEmptyAgentMessagesAt(Consumed) # {}) =>
        last_agent_message = JStr(AgentTextOf(Consumed[Max(AgentMessagesAt(Consumed))]))

\* C3 amended: at every point of draining and after it, the last agent
\* message is the normalized text of the last agent-message record read so
\* far whose normalized text is not empty, and is unset when there is none;
\* a record whose payload normalizes to the empty string overwrites nothing.
C3_LastNonEmptyAgentMessageWins ==
    LET at == NonEmptyAgentMessagesAt(Consumed)
    IN  IF at = {}
        THEN last_agent_message = JNull
        ELSE last_agent_message = JStr(AgentTextOf(Consumed[Max(at)]))

\* C3 witness: two agent messages, a fragment list then a string, were
\* drained and the later one is held.
C3_Witness ==
    /\ pc = "wait"
    /\ Consumed = <<AgentMessage(JList(<<JStr("dra"), JStr("ft")>>)), AgentMessage(JStr("final"))>>
    /\ last_agent_message = JStr("final")

RECURSIVE WithoutSkippable(_)
\* The sequence without its blank lines and its lines that fail to decode.
WithoutSkippable(lines) ==
    IF lines = <<>> THEN <<>>
    ELSE IF Head(lines).k \in {"blank", "garbage"} THEN WithoutSkippable(Tail(lines))
    ELSE <<Head(lines)>> \o WithoutSkippable(Tail(lines))

RECURSIVE DrainAll(_, _)
\* The reducer run over `lines` from state st = [exc, thread_id,
\* last_agent_message]; it stops at the first line that raises.
DrainAll(lines, st) ==
    IF lines = <<>> \/ st.exc # "none" THEN st
    ELSE DrainAll(Tail(lines), handle_line(Head(lines), st.thread_id, st.last_agent_message))

\* An exception raised inside the drain loop ended the run.
DrainAborted ==
    /\ pc = "done"
    /\ outcome = "Unhandled"
    /\ process
    /\ diag \notin {"Traceback: BrokenPipeError", "Traceback: KeyboardInterrupt"}

\* C4: at every point of draining, what the wrapper holds after the lines
\* read so far (aborted or not, session id, last agent message) is what
\* draining the same lines without the blank and undecodable ones gives:
\* inserting such lines neither aborts the drain nor changes the pair.
C4_SkippableLinesHaveNoEffect ==
    LET plain == DrainAll(WithoutSkippable(Consumed),
                          [exc |-> "none", thread_id |-> JNull, last_agent_message |-> JNull])
    IN  /\ DrainAborted <=> (plain.exc # "none")
        /\ thread_id = plain.thread_id
        /\ last_agent_message = plain.last_agent_message

\* C4 witness: an undecodable line and a blank line around a valid record
\* were drained to the end and the record's message is held.
C4_Witness ==
    /\ pc = "wait"
    /\ Consumed = <<GarbageLine, AgentMessage(JStr("final")), BlankLine>>
    /\ last_agent_message = JStr("final")

\* C5: a run whose child was still running when the timeout budget had
\* elapsed ends with exit code 124 (stated for runs that are neither
\* interrupted nor ended by an uncaught exception).
C5_TimeoutEnforced ==
    (pc = "done" /\ overran /\ outcome \notin {"Interrupted", "Unhandled"}) =>
        exit_code = Some(124)

\* C6: when the wait on the child returns 0 and no agent message was
\* captured, the run has ended as NoOutput with exit code 1 and nothing on
\* standard output; success is never reported.
C6_NoOutputFails ==
    (returncode = Some(0) /\ ~Truthy(last_agent_message)) =>
        /\ pc = "done"
        /\ outcome = "NoOutput"
        /\ exit_code = Some(1)
        /\ stdout = <<>>

\* C6 witness: a child that printed no agent message and exited 0.
C6_Witness ==
    /\ pc = "done"
    /\ child_rc = Some(0)
    /\ returncode = Some(0)
    /\ last_agent_message = JNull
    /\ exit_code = Some(1)

\* C7: when the wait on the child returns a nonzero exit code N, the run
\* has ended as NonZeroExit with exit code N and nothing on standard output,
\* whether or not an agent message was captured.
C7_NonZeroExitHasPriority ==
    (returncode # NoValue /\ returncode # Some(0)) =>
        /\ pc = "done"
        /\ outcome = "NonZeroExit"
        /\ exit_code = returncode
        /\ stdout = <<>>

\* C7 witness: the child exited 1 without any agent message and the run
\* ended as NonZeroExit, not NoOutput.
C7_Witness ==
    /\ pc = "done"
    /\ returncode = Some(1)
    /\ last_agent_message = JNull
    /\ outcome = "NonZeroExit"

\* A session id was captured: a non-empty string is held.
SessionCaptured == thread_id.t = "str" /\ thread_id.s # ""

\* C8: a run that has ended has one exit code, fixed by its outcome:
\* Success 0, NoOutput 1, Timeout 124, ChildNotFound 127, Interrupted 130,
\* NonZeroExit the child's code; the outcome is the one its events call
\* for.  Standard output is written only on Success, where it is the last
\* agent message and then the session trailer exactly when a session id was
\* captured; every other ending leaves a diagnostic on stderr and standard
\* output empty.
C8_OutcomeToExitCode ==
    /\ stdout # <<>> => pc = "done" /\ outcome = "Success"
    /\ pc = "done" =>
        /\ Len(exit_code) = 1
        /\ outcome = "Success" =>
              /\ exit_code = Some(0)
              /\ returncode = Some(0)
              /\ last_agent_message.t = "str"
              /\ stdout[1] = last_agent_message.s \o "\n"
              /\ Len(stdout) = IF SessionCaptured THEN 2 ELSE 1
              /\ SessionCaptured => stdout[2] = "\n---\nSESSION_ID: " \o thread_id.s \o "\n"
        /\ outcome = "NoOutput" => exit_code = Some(1) /\ returncode = Some(0)
        /\ outcome = "NonZeroExit" => exit_code = returncode /\ returncode # Some(0)
        /\ outcome = "Timeout" => exit_code = Some(124) /\ signals # <<>>
        /\ outcome = "ChildNotFound" => exit_code = Some(127) /\ ~codex_in_path
        /\ outcome = "Interrupted" => exit_code = Some(130)
        /\ outcome = "UsageError" => exit_code = Some(1)
        /\ outcome # "Success" => stdout = <<>> /\ diag # "none"
        /\ returncode = Some(0) => outcome \in {"Success", "NoOutput"}
        /\ (~codex_in_path /\ Routed) => outcome \in {"ChildNotFound", "Interrupted"}

\* C8 witness: a successful run wrote the message and the session trailer.
C8_Witness ==
    /\ pc = "done"
    /\ outcome = "Success"
    /\ thread_id = JStr("A")
    /\ Len(stdout) = 2

\* The value the claim gives for an integer CODEX_TIMEOUT.
ExpectedTimeout(n) ==
    IF n <= 0 THEN 7200
    ELSE IF n <= 10000 THEN n
    ELSE n \div 1000

\* The integers whose renderings are among the CODEX_TIMEOUT values.
RenderedInts == TimeoutInts \cup {30}

\* C9: once resolved, the timeout is a positive integer; it is 7200 when
\* CODEX_TIMEOUT is unset, empty or not a number, and for an integer value n
\* it is 7200 when n <= 0, n when 1 <= n <= 10000 and n divided by 1000,
\* rounded down, when n > 10000.
C9_TimeoutResolution ==
    timeout_sec # NoValue =>
        /\ timeout_sec[1] > 0
        /\ (env = NoValue \/ env = Some(<<>>)) => timeout_sec = Some(7200)
        /\ (env # NoValue /\ env[1] \in NonNumericRaws) => timeout_sec = Some(7200)
        /\ \A n \in RenderedInts :
              (env = Some(Render(n)) \/ (n >= 0 /\ env # NoValue /\ env[1] \in DressedInt(n)))
                  => timeout_sec = Some(ExpectedTimeout(n))

\* C9 witness: 20000 was resolved to 20 seconds.
C9_Witness ==
    /\ env = Some(<<"2", "0", "0", "0", "0">>)
    /\ timeout_sec = Some(20)

\* The command line or its input is unusable: no task argument, `resume`
\* without both a session id and a task, or the sentinel '-' with an input
\* channel that yields nothing.
UsageErrorInput ==
    \/ Len(argv) < 2
    \/ argv[2] = RESUME /\ Len(argv) < 4
    \/ TaskArgument = DASH /\ stdin.data = EmptyText

\* C10: a run with an unusable command line never spawns a child and, once
\* it has ended, has exit code 1.
C10_UsageErrorBeforeSpawn ==
    UsageErrorInput =>
        /\ ~process
        /\ child = "none"
        /\ pc \in {"start", "resolve", "read", "done"}
        /\ pc = "done" => exit_code = Some(1)

\* C10 witness: `codex.py resume <session_id>` has ended with exit code 1.
C10_Witness ==
    /\ argv = <<SCRIPT_NAME, RESUME, SESSION>>
    /\ pc = "done"
    /\ exit_code = Some(1)
    /\ ~process

\* The wrapper is blocked in the write of lines 200-201: text remains to be
\* written and the child's stdin pipe is full.
WriteBlocked ==
    /\ pc = "write"
    /\ child = "running"
    /\ sent < TextLen(task_text[1])
    /\ sent - taken >= PipeChars

\* The child is blocked writing its next output line: its stdout pipe is
\* full, and only the wrapper's drain loop empties it.
ChildPrintBlocked ==
    /\ child = "running"
    /\ script.input = "first" => ChildInputDone
    /\ emitted < Len(script.lines)
    /\ emitted - pos >= PipeLines

\* The child prints its output before it reads its input, and then reads
\* all of it.
EagerChild == script.input = "last"

\* C11: in streamed delivery, with a child that prints before it has read
\* all of its input, no reachable state has the wrapper blocked writing the
\* task into the child's full stdin pipe while the child is blocked writing
\* into its full stdout pipe: writing the input and draining the output
\* interleave, so the write step is always passed.
C11_NoWriteDrainDeadlock ==
    ~(use_stdin /\ EagerChild /\ WriteBlocked /\ ChildPrintBlocked)

\* The handler of the expired wait has run (or is running).
TimeoutTeardown == pc = "timeout_grace" \/ outcome = "Timeout"

\* C12: on the timeout path the first signal sent to the child is the
\* graceful termination signal, and the force-kill follows it only when the
\* child has not exited within the grace period; a force-kill is never the
\* first signal.
C12_TimeoutTeardownEscalates ==
    TimeoutTeardown =>
        /\ signals # <<>>
        /\ signals[1] = "TERM"
        /\ \A i \in 2..Len(signals) : signals[i] = "KILL"

\* The first KeyboardInterrupt was raised after the child was spawned,
\* while the wrapper was writing the input, draining the output or waiting
\* for the exit.
InterruptedAfterSpawn == interrupts # <<>> /\ interrupts[1] \in {"write", "drain", "wait"}

\* C13: a wrapper interrupted while writing, draining or waiting sends the
\* child the graceful termination signal first (nothing when the child has
\* already exited), sends the force-kill only after the grace period, to a
\* child that has still not exited, never reports Success, and, when no
\* further interrupt cuts the teardown short, ends as Interrupted with exit
\* code 130.
C13_InterruptTeardown ==
    InterruptedAfterSpawn =>
        /\ signals \in {<<>>, <<"TERM">>, <<"TERM", "KILL">>}
        /\ signals = <<>> => child_rc = Some(script.rc)
        /\ Len(signals) = 2 => pc = "done" /\ child = "dying" /\ child_rc = NoValue
        /\ pc \in {"int_grace", "done"}
        /\ outcome # "Success"
        /\ stdout = <<>>
        /\ (Len(interrupts) = 1 /\ pc = "done") =>
              outcome = "Interrupted" /\ exit_code = Some(130)

\* C13 witness: interrupted while draining, the wrapper sent the
\* termination signal, then the kill after the grace period, and ended with
\* exit code 130.
C13_Witness ==
    /\ pc = "done"
    /\ interrupts = <<"drain">>
    /\ signals = <<"TERM", "KILL">>
    /\ outcome = "Interrupted"
    /\ exit_code = Some(130)

\* A line that decodes as JSON and is neither a thread-started record nor
\* an agent-message record with a string or string-list payload.
IsUnrecognized(line) ==
    /\ line.k = "json"
    /\ ~IsThreadStarted(line)
    /\ ~IsAgentMessage(line)

\* C14: a line that decodes as JSON without a fully recognized shape never
\* makes the reducer fail: no error escapes the drain loop on it.
C14_ReducerNeverFails ==
    (pos > 0 /\ IsUnrecognized(Consumed[pos])) => ~DrainAborted

\* C15: a failure of the write to the child's stdin or of the read of its
\* stdout never ends the run as an unhandled error: the run ends with one
\* of the defined outcomes.
C15_StreamFailureIsAnOutcome ==
    ~(/\ pc = "done"
      /\ outcome = "Unhandled"
      /\ diag \in {"Traceback: BrokenPipeError", "Traceback: UnicodeDecodeError"})

\* The exit paths after a successful spawn.
ExitedAfterSpawn ==
    /\ pc = "done"
    /\ process
    /\ outcome \in {"Success", "NoOutput", "NonZeroExit", "Timeout", "Interrupted"}

\* C16: on every exit path after a successful spawn (normal completion,
\* nonzero exit, no output, timeout, interrupt) the child has been reaped
\* when the wrapper exits.
C16_ChildReapedOnExit == ExitedAfterSpawn => child = "reaped"

\* A cancellation took place: a signal was sent to the child or the wrapper
\* was interrupted after the spawn.
Cancelled == process /\ (signals # <<>> \/ interrupts # <<>>)

\* C17: under every interleaving of a timeout expiry and one interrupt,
\* the child is sent each signal at most once, and the cancelled run ends
\* with one defined outcome, Timeout (124) or Interrupted (130), never with
\* an unhandled error.
C17_CancellationExactlyOnce ==
    /\ \A i, j \in 1..Len(signals) : signals[i] = signals[j] => i = j
    /\ (pc = "done" /\ Cancelled /\ Len(interrupts) <= 1) =>
          \/ outcome = "Timeout" /\ exit_code = Some(124)
          \/ outcome = "Interrupted" /\ exit_code = Some(130)

\* The final positional argument of the invocation vector.
LastArg == codex_args[Len(codex_args)]

\* C18: in every run that spawned a child, delivery is streamed exactly
\* when the child has a stdin pipe and exactly when the final argument is
\* '-'.  When streamed, the whole task text has been written and the pipe
\* closed before any output line is reduced; when inline, nothing is written
\* and the final argument is the task text.  A spawn failure ends as
\* ChildNotFound with nothing written and nothing drained.
C18_DeliveryModeThreaded ==
    /\ process =>
          /\ use_stdin <=> stdin_pipe
          /\ use_stdin <=> (LastArg = DASH)
          /\ (use_stdin /\ (pos > 0 \/ Drained)) =>
                written = task_text /\ sent = TextLen(task_text[1])
          /\ written # NoValue => use_stdin /\ written = task_text
          /\ ~use_stdin => written = NoValue /\ sent = 0 /\ LastArg = task_text[1]
    /\ outcome = "ChildNotFound" =>
          ~process /\ written = NoValue /\ sent = 0 /\ pos = 0 /\ child = "none"
    /\ (Routed /\ ~codex_in_path /\ pc = "done") => outcome \in {"ChildNotFound", "Interrupted"}

\* C18 witness: a streamed task was written in full and closed, and the
\* first output line was then reduced.
C18_Witness ==
    /\ pc = "drain"
    /\ use_stdin
    /\ stdin_pipe
    /\ LastArg = DASH
    /\ written = Some(T_nl)
    /\ pos = 1

\* C19: when the task argument is not '-' and the task has been read: with
\* a non-terminal stdin that yields data, the task text is the piped data,
\* it is streamed, and the task argument appears nowhere in the invocation
\* vector nor in what is written to the child; with a terminal, no stdin or
\* no data, the task text is the task argument and no error ends the run at
\* that step.
C19_PipedInputOverridesArgument ==
    (params # NoValue /\ TaskArgument # DASH /\ pc \notin {"resolve", "read"}) =>
        /\ task_text # NoValue
        /\ IF UpstreamPipe
           THEN /\ task_text = Some(stdin.data)
                /\ piped
                /\ Routed =>
                      /\ use_stdin
                      /\ LastArg = DASH
                      /\ \A i \in 1..Len(codex_args) : codex_args[i] # TaskArgument
                /\ written # NoValue => written = Some(stdin.data)
           ELSE /\ task_text = Some(TaskArgument)
                /\ ~piped
                /\ outcome # "UsageError"
                /\ ~process => outcome # "Unhandled"

\* C19 witness: a task argument of 800 characters and a pipe holding other
\* text: the piped text was written to the child.
C19_Witness ==
    /\ argv = <<SCRIPT_NAME, T_800>>
    /\ stdin = [kind |-> "pipe", data |-> T_nl]
    /\ written = Some(T_nl)
    /\ LastArg = DASH

\* An item-completed agent-message record whose payload normalizes to the
\* empty string or to no value: an empty string, a list of fragments that
\* concatenate to nothing, a payload that is neither, or no payload.
IsEmptyAgentMessage(line) ==
    /\ IsRecord(line, "item.completed")
    /\ "item" \in DOMAIN line.v.f
    /\ line.v.f.item.t = "obj"
    /\ "type" \in DOMAIN line.v.f.item.f
    /\ line.v.f.item.f.type = JStr("agent_message")
    /\ \/ "text" \notin DOMAIN line.v.f.item.f
       \/ line.v.f.item.f.text.t \notin {"str", "list"}
       \/ IsAgentMessage(line) /\ AgentTextOf(line) = ""

\* C20: the last agent message is always unset or a non-empty string; an
\* agent-message record whose payload normalizes to the empty string or to
\* no value leaves the last agent message and the session id as they were
\* before it, without error; and a child that exits 0 having printed no
\* agent message with a non-empty text ends as NoOutput, exit code 1.
C20_EmptyAgentMessageNeverOverwrites ==
    /\ \/ last_agent_message = JNull
       \/ last_agent_message.t = "str" /\ last_agent_message.s # ""
    /\ (pos > 0 /\ IsEmptyAgentMessage(Consumed[pos])) =>
          LET before == DrainAll(SubSeq(Consumed, 1, pos - 1),
                                 [exc |-> "none", thread_id |-> JNull,
                                  last_agent_message |-> JNull])
          IN  /\ ~DrainAborted
              /\ thread_id = before.thread_id
              /\ last_agent_message = before.last_agent_message
    /\ (returncode = Some(0) /\ NonEmptyAgentMessagesAt(Consumed) = {}) =>
          pc = "done" /\ outcome = "NoOutput" /\ exit_code = Some(1)

\* C20 witness: a session id and a message were held when an empty agent
\* message was drained; both are still held.
C20_Witness ==
    /\ pc = "wait"
    /\ Consumed = <<ThreadStarted("A"), AgentMessage(JStr("final")), AgentMessage(JStr(""))>>
    /\ thread_id = JStr("A")
    /\ last_agent_message = JStr("final")

====
